---- MODULE Spec2Model ----
(***************************************************************************)
(* Audio fingerprinting: peak detection and fingerprint generation         *)
(* (fingerprints.py), the song database and matcher (database.py) and the  *)
(* dictionary prototype of add / query / delete                            *)
(* (Capstone/last4Bulletpoint.py).                                         *)
(*                                                                         *)
(* Peaks are <<t, f>>, fingerprint records are <<<<f1, f2, dt>>, t1>>,     *)
(* postings are <<song_id, t1>>.  Spectrogram amplitudes are small         *)
(* integers: only their order is used by the code.                         *)
(*                                                                         *)
(* The repository has one delete, delete_song of the prototype, written    *)
(* for a dictionary hash -> list of (song, time).  Database.fp_lookup has  *)
(* that shape, and SpecDb and SpecConc run the same loops on it; no code   *)
(* removes an entry of song_id_to_name.                                    *)
(***************************************************************************)
EXTENDS Integers, Sequences, FiniteSets, TLC

VARIABLES
    data_2d,          \* the log-spectrogram, [0..H-1 -> [0..W-1 -> amplitude]]
    amp_min,          \* the cutoff amplitude handed to local_peaks
    p_nn,             \* the neighborhood radius handed to local_peaks
    peaks,            \* the peak sequence
    fan_value,        \* the fan-out handed to peaks_to_fingerprints
    fingerprints,     \* the records produced by peaks_to_fingerprints
    stage,            \* position in the pipeline: "spec", "peaks", "prints"
    fp_lookup,        \* Database.fp_lookup: hash -> sequence of postings
    song_id_to_name,  \* Database.song_id_to_name
    assigned,         \* the song ids handed out so far, in order
    database,         \* the module-level dictionary of last4Bulletpoint.py
    writer,           \* the position of an add or a delete in progress
    key_order,        \* the keys of fp_lookup in the order a dict iterates them
    last              \* the last operation, its inputs and its result

fpVars == <<data_2d, amp_min, p_nn, peaks, fan_value, fingerprints, stage>>
vars == <<data_2d, amp_min, p_nn, peaks, fan_value, fingerprints, stage,
          fp_lookup, song_id_to_name, assigned, database, writer, key_order, last>>

----------------------------------------------------------------------------
\* Bounds of the model.

MaxRows == 2
MaxCols == 2
MaxAmp == 1
MaxRadius == 2
MaxPeaks == 3
MaxFan == 3
MaxTime == 1
MaxFreq == 1

\* defaults.py
FINGERPRINT_FANOUT == 15

Min(a, b) == IF a < b THEN a ELSE b
Max(a, b) == IF a < b THEN b ELSE a
Abs(a) == IF a < 0 THEN 0 - a ELSE a

RECURSIVE SumOver(_, _, _)
\* Sum of f[n] for n in lo..hi.
SumOver(f, lo, hi) == IF lo > hi THEN 0 ELSE f[lo] + SumOver(f, lo + 1, hi)

\* Python's s[a:b] for 0 <= a on a sequence indexed from 0.
PySlice(s, a, b) == SubSeq(s, a + 1, Min(b, Len(s)))

Range(s) == {s[i] : i \in DOMAIN s}

----------------------------------------------------------------------------
\* fingerprints.py: local_peaks and _peaks

NumRows(data) == Cardinality(DOMAIN data)
NumCols(data) == Cardinality(DOMAIN data[0])

\* iterate_structure(generate_binary_structure(2, 1), radius): the cells of a
\* (2 radius + 1)-square at Manhattan distance at most radius of its centre.
InStructure(radius, i, j) == Abs(i - radius) + Abs(j - radius) <= radius

\* np.where(neighborhood), centred: the offsets <<dr, dc>> in row-major order.
NeighborhoodOffsets(radius) ==
    LET side == 2 * radius + 1
        cell(k) == <<(k - 1) \div side, (k - 1) % side>>
        all == [k \in 1..(side * side) |-> cell(k)]
        on(rc) == InStructure(radius, rc[1], rc[2])
        kept == SelectSeq(all, on)
    IN  [k \in 1..Len(kept) |-> <<kept[k][1] - side \div 2, kept[k][2] - side \div 2>>]

\* The comparison of line 127, with ties disqualifying: a slip of < to <=.
NeighborIsLargerOrEqual(data, r, c, dr, dc) == data[r][c] <= data[r + dr][c + dc]

\* Line 127: the neighbor's amplitude is strictly larger.
NeighborIsLarger(data, r, c, dr, dc) == data[r][c] < data[r + dr][c + dc]

RECURSIVE NoLargerNeighbor(_, _, _, _, _)
\* The for/else over the neighborhood: TRUE when the loop ends without break.
NoLargerNeighbor(data, r, c, offsets, i) ==
    IF i > Len(offsets) THEN TRUE
    ELSE LET dr == offsets[i][1]
             dc == offsets[i][2]
         IN  IF dr = 0 /\ dc = 0 THEN NoLargerNeighbor(data, r, c, offsets, i + 1)
             ELSE IF ~(0 <= r + dr /\ r + dr < NumRows(data))
                  THEN NoLargerNeighbor(data, r, c, offsets, i + 1)
             ELSE IF ~(0 <= c + dc /\ c + dc < NumCols(data))
                  THEN NoLargerNeighbor(data, r, c, offsets, i + 1)
             ELSE IF NeighborIsLarger(data, r, c, dr, dc) THEN FALSE
             ELSE NoLargerNeighbor(data, r, c, offsets, i + 1)

\* The scan in row-major order: the k-th cell as <<c, r>> with c fastest.
NdIndexRowMajor(k, h, w) == <<k % w, k \div w>>

\* np.ndindex(*shape[::-1]): the k-th cell as <<c, r>>, r fastest.
NdIndex(k, h, w) == <<k \div h, k % h>>

RECURSIVE PeaksFrom(_, _, _, _)
PeaksFrom(data, offsets, amp, k) ==
    IF k >= NumRows(data) * NumCols(data) THEN <<>>
    ELSE LET cr == NdIndex(k, NumRows(data), NumCols(data))
             c == cr[1]
             r == cr[2]
             rest == PeaksFrom(data, offsets, amp, k + 1)
         IN  IF data[r][c] <= amp THEN rest
             ELSE IF NoLargerNeighbor(data, r, c, offsets, 1)
                  THEN <<(<<c, r>>)>> \o rest
             ELSE rest

_peaks(data, row_col_deltas, amp) == PeaksFrom(data, row_col_deltas, amp, 0)

local_peaks(log_spectrogram, amp, radius) ==
    _peaks(log_spectrogram, NeighborhoodOffsets(radius), amp)

----------------------------------------------------------------------------
\* fingerprints.py: peaks_to_fingerprints

\* The records of one anchor <<t1, f1>> over its window of paired peaks.
AnchorRecords(anchor, window) ==
    [k \in 1..Len(window) |->
        <<(<<anchor[2], window[k][2], window[k][1] - anchor[1]>>), anchor[1]>>]

\* A window one peak short: a slip of n + fan_value + 1 to n + fan_value.
FanWindowShort(pks, n, fan) == PySlice(pks, n + 1, n + fan)

\* peaks[n + 1 : n + fan_value + 1]
FanWindow(pks, n, fan) == PySlice(pks, n + 1, n + fan + 1)

RECURSIVE FingerprintsFrom(_, _, _)
FingerprintsFrom(pks, fan, n) ==
    IF n >= Len(pks) THEN <<>>
    ELSE AnchorRecords(pks[n + 1], FanWindow(pks, n, fan))
            \o FingerprintsFrom(pks, fan, n + 1)

peaks_to_fingerprints(pks, fan) == FingerprintsFrom(pks, fan, 0)

----------------------------------------------------------------------------
\* The pipeline on one spectrogram, and the generator on any peak sequence.

Grids ==
    UNION {[0..(h - 1) -> [0..(w - 1) -> 0..MaxAmp]] : h \in 1..MaxRows, w \in 1..MaxCols}

PeakCells == (0..MaxTime) \X (0..MaxFreq)

PeakSeqs == UNION {[1..n -> PeakCells] : n \in 0..MaxPeaks}

NoDb ==
    /\ fp_lookup = <<>>
    /\ song_id_to_name = <<>>
    /\ assigned = <<>>
    /\ database = <<>>
    /\ writer = <<>>
    /\ key_order = <<>>
    /\ last = <<>>

InitPeaks ==
    /\ data_2d \in Grids
    /\ amp_min \in (-1)..MaxAmp
    /\ p_nn \in 1..MaxRadius
    /\ fan_value = FINGERPRINT_FANOUT
    /\ peaks = <<>>
    /\ fingerprints = <<>>
    /\ stage = "spec"
    /\ NoDb

InitFp ==
    /\ data_2d = <<>>
    /\ amp_min = 0
    /\ p_nn = 0
    /\ fan_value \in 1..MaxFan
    /\ peaks \in PeakSeqs
    /\ fingerprints = <<>>
    /\ stage = "peaks"
    /\ NoDb

LocalPeaks ==
    /\ stage = "spec"
    /\ peaks' = local_peaks(data_2d, amp_min, p_nn)
    /\ stage' = "peaks"
    /\ UNCHANGED <<data_2d, amp_min, p_nn, fan_value, fingerprints>>
    /\ UNCHANGED <<fp_lookup, song_id_to_name, assigned, database, writer, key_order, last>>

PeaksToFingerprints ==
    /\ stage = "peaks"
    /\ 1 <= fan_value
    /\ fingerprints' = peaks_to_fingerprints(peaks, fan_value)
    /\ stage' = "prints"
    /\ UNCHANGED <<data_2d, amp_min, p_nn, fan_value, peaks>>
    /\ UNCHANGED <<fp_lookup, song_id_to_name, assigned, database, writer, key_order, last>>

NextPeaks == LocalPeaks \/ PeaksToFingerprints

NextFp == PeaksToFingerprints

SpecPeaks == InitPeaks /\ [][NextPeaks]_vars

SpecFp == InitFp /\ [][NextFp]_vars

----------------------------------------------------------------------------
\* database.py: the Database, add_song_to_database, the matcher

MaxSongs == 2
MaxInputs == 4

SongNames == {"A", "B"}

\* The song name returned when nothing matches.
None == "None"

\* Peak lists as local_peaks lists them (time ascending, then frequency):
\* three peaks of one frequency (one hash twice), the same shifted in time,
\* two peaks of one time column among three, and further lists.
PeakCatalogue ==
    <<(<<(<<0, 0>>), <<1, 0>>, <<2, 0>>>>),
      <<(<<1, 0>>), <<2, 0>>>>,
      <<(<<0, 0>>), <<0, 1>>, <<1, 0>>>>,
      <<(<<0, 0>>), <<1, 0>>>>,
      <<(<<0, 1>>), <<1, 1>>, <<2, 0>>>> >>

\* The peak lists local_peaks hands to peaks_to_fingerprints in the model.
SongPeaks == {PeakCatalogue[i] : i \in 1..Min(MaxInputs, Len(PeakCatalogue))}

RECURSIVE SubSeqsOf(_)
\* The subsequences of a sequence, order kept.
SubSeqsOf(s) ==
    IF s = <<>> THEN {<<>>}
    ELSE LET rest == SubSeqsOf(Tail(s))
         IN  rest \cup {<<Head(s)>> \o t : t \in rest}

\* The fingerprint sequences a clip is matched with.
Clips == UNION {SubSeqsOf(peaks_to_fingerprints(p, FINGERPRINT_FANOUT)) : p \in SongPeaks}

\* db.fp_lookup[h].append(posting) on a defaultdict(list).
AppendPosting(lookup, h, posting) ==
    IF h \in DOMAIN lookup
    THEN [lookup EXCEPT ![h] = Append(@, posting)]
    ELSE [k \in DOMAIN lookup \cup {h} |-> IF k = h THEN <<posting>> ELSE lookup[k]]

RECURSIVE AddPostings(_, _, _, _)
\* The loop of lines 89-90 from the i-th record on.
AddPostings(lookup, fps, id, i) ==
    IF i > Len(fps) THEN lookup
    ELSE AddPostings(AppendPosting(lookup, fps[i][1], <<id, fps[i][2]>>), fps, id, i + 1)

\* An identifier taken from the last entry: a slip that hands out an id in use.
NewSongIdOffByOne(names) == Max(Cardinality(DOMAIN names) - 1, 0)

\* new_song_id = len(db.song_id_to_name)
NewSongId(names) == Cardinality(DOMAIN names)

\* db.song_id_to_name[new_song_id] = song_name
SetName(names, id, name) ==
    [k \in DOMAIN names \cup {id} |-> IF k = id THEN name ELSE names[k]]

\* db.fp_lookup.get(h): the bucket, or the empty iteration when get gives None.
BucketOf(lookup, h) == IF h \in DOMAIN lookup THEN lookup[h] ELSE <<>>

\* The offsets taken as t_song + t_sample: a slip of the sign.
MatchesOfFingerprintSum(lookup, fp) ==
    LET bucket == IF fp[1] \in DOMAIN lookup THEN lookup[fp[1]] ELSE <<>>
    IN  [j \in 1..Len(bucket) |-> <<bucket[j][1], bucket[j][2] + fp[2]>>]

\* The inner loop of fingerprints_to_matches for one sample fingerprint.
MatchesOfFingerprint(lookup, fp) ==
    LET bucket == BucketOf(lookup, fp[1])
    IN  [j \in 1..Len(bucket) |-> <<bucket[j][1], bucket[j][2] - fp[2]>>]

RECURSIVE fingerprints_to_matches(_, _)
fingerprints_to_matches(sample_fingerprints, lookup) ==
    IF sample_fingerprints = <<>> THEN <<>>
    ELSE MatchesOfFingerprint(lookup, Head(sample_fingerprints))
            \o fingerprints_to_matches(Tail(sample_fingerprints), lookup)

\* Counter(matches)[x]
CountOf(matches, x) == Cardinality({i \in DOMAIN matches : matches[i] = x})

\* A most_common that keeps the last of the equal counts instead of the first.
BeatsTopOrEqual(count, best) == count >= best

\* max(items, key=count) replaces its candidate only by a larger count.
BeatsTop(count, best) == count > best

RECURSIVE TopFrom(_, _, _)
\* Counter.most_common(1)[0][0]: the keys are visited in the order of their
\* first occurrence, as a dict keeps them.
TopFrom(matches, i, best) ==
    IF i > Len(matches) THEN best
    ELSE IF BeatsTop(CountOf(matches, matches[i]), CountOf(matches, best))
         THEN TopFrom(matches, i + 1, matches[i])
         ELSE TopFrom(matches, i + 1, best)

MostCommon(matches) == TopFrom(matches, 2, matches[1])

\* Lines 151-162 of match_recording on the fingerprints of the recording.
MatchResult(clip, lookup, names) ==
    LET matches == fingerprints_to_matches(clip, lookup)
    IN  IF matches = <<>> THEN [name |-> None, votes |-> 0, top |-> <<>>]
        ELSE LET top == MostCommon(matches)
             IN  IF top[1] \in DOMAIN names
                 THEN [name |-> names[top[1]], votes |-> CountOf(matches, top), top |-> top]
                 ELSE [name |-> "KeyError", votes |-> 0, top |-> top]

----------------------------------------------------------------------------
\* Capstone/last4Bulletpoint.py: delete_song

RECURSIVE RemoveFirst(_, _)
\* list.remove(x): the first element equal to x goes.
RemoveFirst(list, x) ==
    IF list = <<>> THEN <<>>
    ELSE IF Head(list) = x THEN Tail(list)
    ELSE <<Head(list)>> \o RemoveFirst(Tail(list), x)

\* The list iterator moves on after a removal too.
NextIndexAfterRemove(i) == i + 1

RECURSIVE DeleteScan(_, _, _)
\* for song in songList: if songID == song[0]: songList.remove(song)
\* i is the iterator's index, from 0, into the list as it is now.
DeleteScan(songList, songID, i) ==
    IF i >= Len(songList) THEN songList
    ELSE IF songID = songList[i + 1][1]
         THEN DeleteScan(RemoveFirst(songList, songList[i + 1]), songID,
                         NextIndexAfterRemove(i))
         ELSE DeleteScan(songList, songID, i + 1)

delete_song(db, songID) == [key \in DOMAIN db |-> DeleteScan(db[key], songID, 0)]

----------------------------------------------------------------------------
\* The database under add_song_to_database, delete_song and match_recording.

NoPipeline ==
    /\ data_2d = <<>>
    /\ amp_min = 0
    /\ p_nn = 0
    /\ peaks = <<>>
    /\ fan_value = FINGERPRINT_FANOUT
    /\ fingerprints = <<>>
    /\ stage = "db"

NoOp == [op |-> "none", id |-> -1, fps |-> <<>>, clip |-> <<>>,
         result |-> [name |-> None, votes |-> 0, top |-> <<>>], afterAdd |-> FALSE]

\* create_database()
InitDb ==
    /\ fp_lookup = <<>>
    /\ song_id_to_name = <<>>
    /\ assigned = <<>>
    /\ database = <<>>
    /\ writer = <<>>
    /\ key_order = <<>>
    /\ last = NoOp
    /\ NoPipeline

AddSongToDatabase ==
    /\ Len(assigned) < MaxSongs
    /\ \E pks \in SongPeaks : \E song_name \in SongNames :
          LET new_song_id == NewSongId(song_id_to_name)
              fps == peaks_to_fingerprints(pks, FINGERPRINT_FANOUT)
          IN  /\ fp_lookup' = AddPostings(fp_lookup, fps, new_song_id, 1)
              /\ song_id_to_name' = SetName(song_id_to_name, new_song_id, song_name)
              /\ assigned' = Append(assigned, new_song_id)
              /\ last' = [NoOp EXCEPT !.op = "add", !.id = new_song_id, !.fps = fps]
    /\ UNCHANGED <<database, writer, key_order>>
    /\ UNCHANGED fpVars

DeleteSong ==
    /\ \E songID \in 0..(MaxSongs - 1) :
          /\ fp_lookup' = delete_song(fp_lookup, songID)
          /\ last' = [NoOp EXCEPT !.op = "delete", !.id = songID]
    /\ UNCHANGED <<song_id_to_name, assigned, database, writer, key_order>>
    /\ UNCHANGED fpVars

MatchRecording ==
    /\ \E clip \in Clips :
          last' = [op |-> "match", id |-> last.id, fps |-> last.fps, clip |-> clip,
                   result |-> MatchResult(clip, fp_lookup, song_id_to_name),
                   afterAdd |-> (last.op = "add" \/ (last.op = "match" /\ last.afterAdd))]
    /\ UNCHANGED <<fp_lookup, song_id_to_name, assigned, database, writer, key_order>>
    /\ UNCHANGED fpVars

NextDb == AddSongToDatabase \/ DeleteSong \/ MatchRecording

SpecDb == InitDb /\ [][NextDb]_vars

----------------------------------------------------------------------------
\* Capstone/last4Bulletpoint.py: the dictionary, add_to_db and query

MaxPairs == 2

\* The module's dictionary literal: hash -> list of (song, time).
DatabaseLiteral ==
    [key \in {<<123, 256, 5>>, <<356, 100, 4>>, <<210, 160, 8>>, <<300, 210, 7>>,
              <<234, 123, 6>>} |->
        CASE key = <<123, 256, 5>> ->
                 <<(<<"songOne", 5>>), <<"songTwo", 25>>, <<"songThree", 30>>,
                   <<"songFour", 23>>>>
          [] key = <<356, 100, 4>> -> <<(<<"songTwo", 30>>), <<"songFour", 53>>>>
          [] key = <<210, 160, 8>> -> <<(<<"songThree", 46>>)>>
          [] key = <<300, 210, 7>> -> <<(<<"songOne", 3>>)>>
          [] key = <<234, 123, 6>> ->
                 <<(<<"songOne", 51>>), <<"songTwo", 25>>, <<"songThree", 33>>,
                   <<"songFour", 13>>>>]

\* test_fingerprint: rows (f1, f2, dt, t)
test_fingerprint == <<(<<123, 256, 5, 5>>), <<356, 100, 4, 36>>, <<200, 100, 8, 52>>>>

AlreadyInDatabase == "Song is already in database."

\* pair[0:3]
KeyOfPair(pair) == <<pair[1], pair[2], pair[3]>>

\* Lines 22-27: some posting of some list carries songID.
SongIsListed(db, songID) ==
    \E key \in DOMAIN db : \E i \in DOMAIN db[key] : db[key][i][1] = songID

\* songInDataBase after a scan that found no posting of songID: it starts TRUE
\* and is cleared by the first posting the scan visits.
FlagAfterScan(db) == ~(\E key \in DOMAIN db : db[key] # <<>>)

\* Lines 30-33 for one pair.
AppendPair(db, pair, songID) ==
    LET key == KeyOfPair(pair)
        withKey == IF key \in DOMAIN db THEN db
                   ELSE [k \in DOMAIN db \cup {key} |-> IF k = key THEN <<>> ELSE db[k]]
    IN  [withKey EXCEPT ![key] = Append(@, <<songID, pair[4]>>)]

RECURSIVE AppendPairs(_, _, _)
AppendPairs(db, fingerprint, songID) ==
    IF fingerprint = <<>> THEN db
    ELSE AppendPairs(AppendPair(db, Head(fingerprint), songID), Tail(fingerprint), songID)

\* add_to_db: the dictionary afterwards and the value returned.
add_to_db(db, fingerprint, songID) ==
    IF SongIsListed(db, songID) THEN [db |-> db, ret |-> AlreadyInDatabase]
    ELSE IF FlagAfterScan(db) = FALSE
         THEN [db |-> AppendPairs(db, fingerprint, songID), ret |-> None]
         ELSE [db |-> db, ret |-> None]

RECURSIVE PossibleCount(_, _, _)
\* Lines 47-52: how often a song is appended to possible_songs.
PossibleCount(db, unknown_fingerprint, song) ==
    IF unknown_fingerprint = <<>> THEN 0
    ELSE LET drow == KeyOfPair(Head(unknown_fingerprint))
             here == IF drow \in DOMAIN db
                     THEN Cardinality({j \in DOMAIN db[drow] : db[drow][j][1] = song})
                     ELSE 0
         IN  here + PossibleCount(db, Tail(unknown_fingerprint), song)

\* The songs of the model in the order np.unique sorts their names.
SortedSongs == <<"songFive", "songFour", "songOne", "songThree", "songTwo">>

\* query: np.unique sorts the songs, np.argmax takes the first largest count
\* and raises ValueError on an empty array.
query(db, unknown_fingerprint) ==
    LET counts == [k \in DOMAIN SortedSongs |->
                      PossibleCount(db, unknown_fingerprint, SortedSongs[k])]
        unique == {k \in DOMAIN SortedSongs : counts[k] > 0}
    IN  IF unique = {} THEN "ValueError"
        ELSE SortedSongs[CHOOSE k \in unique :
                 \A m \in unique : counts[m] < counts[k] \/ (counts[m] = counts[k] /\ k <= m)]

\* The rows (f1, f2, dt, t) the model adds and queries with.
CapPairs == {<<123, 256, 5, 5>>, <<123, 256, 5, 52>>, <<200, 100, 8, 52>>}

CapFingerprints == UNION {[1..n -> CapPairs] : n \in 0..MaxPairs}

CapSongs == {"songOne", "songTwo", "songThree", "songFour", "songFive"}

\* The songs the model adds: one of the literal and the one of the module's test.
CapNewSongs == {"songOne", "songFive"}

\* The dictionary after the module has run: the literal, then
\* add_to_db(test_fingerprint, "songFive") and delete_song("songFive").
InitCap ==
    /\ database = delete_song(add_to_db(DatabaseLiteral, test_fingerprint, "songFive").db,
                              "songFive")
    /\ fp_lookup = <<>>
    /\ song_id_to_name = <<>>
    /\ assigned = <<>>
    /\ writer = <<>>
    /\ key_order = <<>>
    /\ last = NoOp
    /\ NoPipeline

AddToDb ==
    /\ \E fingerprint \in CapFingerprints : \E songID \in CapNewSongs :
          LET out == add_to_db(database, fingerprint, songID)
          IN  /\ database' = out.db
              /\ last' = [NoOp EXCEPT !.op = "add", !.id = songID, !.fps = fingerprint,
                                      !.result.name = out.ret]
    /\ UNCHANGED <<fp_lookup, song_id_to_name, assigned, writer, key_order>>
    /\ UNCHANGED fpVars

Query ==
    /\ \E unknown_fingerprint \in CapFingerprints :
          last' = [NoOp EXCEPT !.op = "query", !.clip = unknown_fingerprint,
                               !.result.name = query(database, unknown_fingerprint)]
    /\ UNCHANGED <<database, fp_lookup, song_id_to_name, assigned, writer, key_order>>
    /\ UNCHANGED fpVars

CapDeleteSong ==
    /\ \E songID \in CapSongs :
          /\ database' = delete_song(database, songID)
          /\ last' = [NoOp EXCEPT !.op = "delete", !.id = songID]
    /\ UNCHANGED <<fp_lookup, song_id_to_name, assigned, writer, key_order>>
    /\ UNCHANGED fpVars

NextCap == AddToDb \/ Query \/ CapDeleteSong

SpecCap == InitCap /\ [][NextCap]_vars

----------------------------------------------------------------------------
\* add_song_to_database and delete_song statement by statement, with a query
\* that may run between any two of their statements.

Idle == [pc |-> "idle", id |-> -1, fps |-> <<>>, i |-> 0, name |-> None]

InitConc ==
    /\ fp_lookup = <<>>
    /\ song_id_to_name = <<>>
    /\ assigned = <<>>
    /\ database = <<>>
    /\ writer = Idle
    /\ key_order = <<>>
    /\ last = NoOp
    /\ NoPipeline

\* Lines 84-87: the id is taken and the fingerprints are computed.
AddBegin ==
    /\ writer.pc = "idle"
    /\ Len(assigned) < MaxSongs
    /\ \E pks \in SongPeaks : \E song_name \in SongNames :
          /\ writer' = [pc |-> "append", id |-> NewSongId(song_id_to_name),
                        fps |-> peaks_to_fingerprints(pks, FINGERPRINT_FANOUT),
                        i |-> 1, name |-> song_name]
          /\ assigned' = Append(assigned, NewSongId(song_id_to_name))
    /\ UNCHANGED <<fp_lookup, song_id_to_name, database, key_order, last>>
    /\ UNCHANGED fpVars

\* Line 90: one posting is appended.
AddAppend ==
    /\ writer.pc = "append"
    /\ writer.i <= Len(writer.fps)
    /\ LET fp == writer.fps[writer.i]
       IN  /\ fp_lookup' = AppendPosting(fp_lookup, fp[1], <<writer.id, fp[2]>>)
           /\ key_order' = IF fp[1] \in DOMAIN fp_lookup THEN key_order
                           ELSE Append(key_order, fp[1])
    /\ writer' = [writer EXCEPT !.i = @ + 1]
    /\ UNCHANGED <<song_id_to_name, assigned, database, last>>
    /\ UNCHANGED fpVars

\* Line 92: the name is registered.
AddRegister ==
    /\ writer.pc = "append"
    /\ writer.i > Len(writer.fps)
    /\ song_id_to_name' = SetName(song_id_to_name, writer.id, writer.name)
    /\ writer' = Idle
    /\ UNCHANGED <<fp_lookup, assigned, database, key_order, last>>
    /\ UNCHANGED fpVars

\* delete_song is called; its outer loop starts at the first key.
DeleteBegin ==
    /\ writer.pc = "idle"
    /\ \E songID \in 0..(MaxSongs - 1) :
          writer' = [Idle EXCEPT !.pc = "delete", !.id = songID, !.i = 1]
    /\ UNCHANGED <<fp_lookup, song_id_to_name, assigned, database, key_order, last>>
    /\ UNCHANGED fpVars

\* The inner loop of delete_song on the next bucket.
DeleteBucket ==
    /\ writer.pc = "delete"
    /\ writer.i <= Len(key_order)
    /\ fp_lookup' = [fp_lookup EXCEPT ![key_order[writer.i]] = DeleteScan(@, writer.id, 0)]
    /\ writer' = [writer EXCEPT !.i = @ + 1]
    /\ UNCHANGED <<song_id_to_name, assigned, database, key_order, last>>
    /\ UNCHANGED fpVars

DeleteEnd ==
    /\ writer.pc = "delete"
    /\ writer.i > Len(key_order)
    /\ writer' = Idle
    /\ UNCHANGED <<fp_lookup, song_id_to_name, assigned, database, key_order, last>>
    /\ UNCHANGED fpVars

\* A query: the lookups and the name resolution of match_recording.
Observe ==
    /\ \E clip \in Clips :
          last' = [NoOp EXCEPT !.op = "match", !.clip = clip,
                               !.result = MatchResult(clip, fp_lookup, song_id_to_name)]
    /\ UNCHANGED <<fp_lookup, song_id_to_name, assigned, database, writer, key_order>>
    /\ UNCHANGED fpVars

NextConc ==
    \/ AddBegin
    \/ AddAppend
    \/ AddRegister
    \/ DeleteBegin
    \/ DeleteBucket
    \/ DeleteEnd
    \/ Observe

SpecConc == InitConc /\ [][NextConc]_vars

----------------------------------------------------------------------------
\* C1: after delete_song(id) no bucket holds a posting of id, also when a
\* bucket held two or more of them, and in every bucket the postings of the
\* other songs are all there, unchanged and in their order.

WithoutSong(songList, songID) ==
    LET keep(posting) == posting[1] # songID
    IN  SelectSeq(songList, keep)

C1_DeleteRemovesEveryPosting ==
    [][last'.op = "delete" =>
          /\ DOMAIN database' = DOMAIN database
          /\ \A key \in DOMAIN database :
                /\ \A i \in DOMAIN database'[key] : database'[key][i][1] # last'.id
                /\ WithoutSong(database'[key], last'.id) = WithoutSong(database[key], last'.id)
      ]_vars

----------------------------------------------------------------------------
\* C3: add_song of a song that some posting already carries is rejected and
\* the dictionary is as before; add_song of a song no posting carries (also
\* into an empty database) appends one posting per fingerprint.

\* The postings a fingerprint appends under one key, in order.
PostingsUnder(fingerprint, songID, key) ==
    LET under(pair) == KeyOfPair(pair) = key
        rows == SelectSeq(fingerprint, under)
    IN  [k \in 1..Len(rows) |-> <<songID, rows[k][4]>>]

C3_AddRejectsOrAppends ==
    [][last'.op = "add" =>
          IF SongIsListed(database, last'.id)
          THEN /\ last'.result.name = AlreadyInDatabase
               /\ database' = database
          ELSE /\ DOMAIN database' =
                      DOMAIN database \cup {KeyOfPair(last'.fps[k]) : k \in DOMAIN last'.fps}
               /\ \A key \in DOMAIN database' :
                      database'[key] =
                          (IF key \in DOMAIN database THEN database[key] ELSE <<>>)
                              \o PostingsUnder(last'.fps, last'.id, key)
      ]_vars

----------------------------------------------------------------------------
\* C6: in every state a query can observe, also between the statements of an
\* add_song or a delete_song, every posting's song_id has an entry in the name
\* table (so a song_id without a name, as one a delete removed, has no
\* posting), and the query's name resolution does not fail.
C6_PostingsAreNamed ==
    /\ \A h \in DOMAIN fp_lookup : \A j \in DOMAIN fp_lookup[h] :
          fp_lookup[h][j][1] \in DOMAIN song_id_to_name
    /\ last.result.name # "KeyError"

----------------------------------------------------------------------------
\* C7: when no hash of the clip has a posting (the hash is absent, its bucket
\* was emptied by delete_song, or the clip is empty) the query returns the
\* no-match result and raises nothing.

NoHashHit(db, clip) ==
    \A i \in DOMAIN clip :
        KeyOfPair(clip[i]) \in DOMAIN db => db[KeyOfPair(clip[i])] = <<>>

C7_NoMatchIsAResult ==
    last.op = "query" /\ NoHashHit(database, last.clip) => last.result.name = None

----------------------------------------------------------------------------
----------------------------------------------------------------------------
\* C4: when the clip has a hash hit, the vote_count returned is the largest
\* number of (clip fingerprint, posting) pairs that give one candidate tuple
\* (song_id, t_song - t_sample), the name returned is the name-table entry of
\* the song_id of such a tuple, and among tuples of equal top count it is the
\* one encountered first.

\* The (clip index, bucket index) pairs of a clip's hash hits.
HitPairs(clip, lookup) ==
    UNION {{<<i, j>> : j \in DOMAIN BucketOf(lookup, clip[i][1])} : i \in DOMAIN clip}

TupleOfPair(clip, lookup, ij) ==
    LET posting == BucketOf(lookup, clip[ij[1]][1])[ij[2]]
    IN  <<posting[1], posting[2] - clip[ij[1]][2]>>

VotesFor(clip, lookup, x) ==
    Cardinality({ij \in HitPairs(clip, lookup) : TupleOfPair(clip, lookup, ij) = x})

PairBefore(a, b) == a[1] < b[1] \/ (a[1] = b[1] /\ a[2] < b[2])

\* Tuple x is produced by some pair that comes before every pair producing y.
EncounteredBefore(clip, lookup, x, y) ==
    \E a \in HitPairs(clip, lookup) :
        /\ TupleOfPair(clip, lookup, a) = x
        /\ \A b \in HitPairs(clip, lookup) :
              TupleOfPair(clip, lookup, b) = y => PairBefore(a, b)

C4_TopTupleWins ==
    last.op = "match" /\ HitPairs(last.clip, fp_lookup) # {} =>
        LET clip == last.clip
            tuples == {TupleOfPair(clip, fp_lookup, ij) : ij \in HitPairs(clip, fp_lookup)}
        IN  \E x \in tuples :
                /\ \A y \in tuples : VotesFor(clip, fp_lookup, y) <= VotesFor(clip, fp_lookup, x)
                /\ \A y \in tuples \ {x} :
                      VotesFor(clip, fp_lookup, y) = VotesFor(clip, fp_lookup, x)
                          => EncounteredBefore(clip, fp_lookup, x, y)
                /\ last.result = [name |-> song_id_to_name[x[1]],
                                  votes |-> VotesFor(clip, fp_lookup, x), top |-> x]

\* Two songs tie at two votes each and the one added first is returned.
C4_Witness ==
    /\ last.op = "match"
    /\ last.result.votes = 2
    /\ last.result.top[1] = 0
    /\ VotesFor(last.clip, fp_lookup, <<1, last.result.top[2]>>) = 2
    /\ song_id_to_name[0] # song_id_to_name[1]

----------------------------------------------------------------------------
\* C5 as stated: add_song followed immediately by a match query with a
\* (non-empty) verbatim subsequence of the song's fingerprints returns that
\* song's name, with vote_count the number of query fingerprints that match at
\* the zero time offset.

\* The query fingerprints that hit a posting of song id at the zero offset.
ZeroOffsetHits(clip, lookup, id) ==
    {i \in DOMAIN clip :
        \E j \in DOMAIN BucketOf(lookup, clip[i][1]) :
            BucketOf(lookup, clip[i][1])[j] = <<id, clip[i][2]>>}

QueryAfterAdd ==
    /\ last.op = "match"
    /\ last.afterAdd
    /\ last.clip \in SubSeqsOf(last.fps)

C5_OwnSongIsReturned ==
    QueryAfterAdd /\ last.clip # <<>> =>
        /\ last.result.name = song_id_to_name[last.id]
        /\ last.result.votes = Cardinality(ZeroOffsetHits(last.clip, fp_lookup, last.id))

\* Some tuple of a song added earlier gets as many votes as the new song at
\* the zero offset.
EarlierSongTies(clip, lookup, id) ==
    \E ij \in HitPairs(clip, lookup) :
        LET x == TupleOfPair(clip, lookup, ij)
        IN  /\ x[1] # id
            /\ VotesFor(clip, lookup, x) >= VotesFor(clip, lookup, <<id, 0>>)

\* C5 as amended: the vote_count is the number of query fingerprints, each of
\* which matches the new song at the zero offset; the name is the new song's
\* when the query is not empty and no tuple of a song added earlier gets as
\* many votes (such a tuple is encountered first and wins the tie).
C5_OwnSongUnlessTied ==
    QueryAfterAdd =>
        /\ last.result.votes = Len(last.clip)
        /\ last.result.votes = Cardinality(ZeroOffsetHits(last.clip, fp_lookup, last.id))
        /\ (last.clip # <<>> /\ ~EarlierSongTies(last.clip, fp_lookup, last.id)
                => /\ last.result.name = song_id_to_name[last.id]
                   /\ last.result.top[1] = last.id)

\* The new song is returned with three votes although an earlier song shares
\* a hash with it.
C5_Witness ==
    /\ QueryAfterAdd
    /\ last.id = 1
    /\ last.result.votes = 3
    /\ last.result.top = <<1, 0>>
    /\ \E ij \in HitPairs(last.clip, fp_lookup) : TupleOfPair(last.clip, fp_lookup, ij)[1] = 0

----------------------------------------------------------------------------
\* The same case in match_recording (under SpecDb): (None, 0) is returned.
MatchRecordingNoMatch ==
    last.op = "match" /\ HitPairs(last.clip, fp_lookup) = {} =>
        last.result.name = None /\ last.result.votes = 0

\* A clip whose only hash has a bucket that delete_song emptied.
MatchRecordingNoMatchCase ==
    /\ last.op = "match"
    /\ last.clip # <<>>
    /\ \A i \in DOMAIN last.clip :
          last.clip[i][1] \in DOMAIN fp_lookup /\ fp_lookup[last.clip[i][1]] = <<>>

----------------------------------------------------------------------------
\* C8: for a peak sequence of length L and fan_value F >= 1 the generator
\* yields, in anchor-ascending order, exactly one record ((f1, f2, t2 - t1), t1)
\* for each anchor n and each paired index j with n < j <= min(n + F, L - 1),
\* so that there are sum over n = 0..L-1 of min(F, L-1-n) records.

\* The number of records of the anchors before anchor n (anchors count from 0).
RecordsBefore(L, F, n) == SumOver([m \in 0..(L - 1) |-> Min(F, L - 1 - m)], 0, n - 1)

C8_FanOutRecords ==
    stage = "prints" =>
        LET L == Len(peaks)
            F == fan_value
        IN  /\ Len(fingerprints) = RecordsBefore(L, F, L)
            /\ \A n \in 0..(L - 1) : \A j \in (n + 1)..Min(n + F, L - 1) :
                  fingerprints[RecordsBefore(L, F, n) + (j - n)] =
                      <<(<<peaks[n + 1][2], peaks[j + 1][2],
                           peaks[j + 1][1] - peaks[n + 1][1]>>), peaks[n + 1][1]>>

\* Three peaks fanned out by one: the first anchor is limited by the fan-out,
\* the last one by the end of the sequence.
C8_Witness ==
    /\ stage = "prints"
    /\ Len(peaks) = 3
    /\ fan_value = 1
    /\ Len(fingerprints) = 2

----------------------------------------------------------------------------
\* C9: the peak detector returns exactly the cells above the cutoff that have
\* no strictly larger in-bounds neighbor in the neighborhood (an equal neighbor
\* does not disqualify), each as <<time = column, freq = row>>, ordered by
\* time and, within a time, by frequency.

InNeighborhood(radius, dr, dc) ==
    /\ Abs(dr) + Abs(dc) <= radius
    /\ ~(dr = 0 /\ dc = 0)

IsLocalPeak(data, amp, radius, r, c) ==
    /\ data[r][c] > amp
    /\ \A r2 \in DOMAIN data : \A c2 \in DOMAIN data[0] :
          InNeighborhood(radius, r2 - r, c2 - c) => data[r2][c2] <= data[r][c]

ColumnMajorBefore(p, q) == p[1] < q[1] \/ (p[1] = q[1] /\ p[2] < q[2])

C9_PeaksAreLocalMaxima ==
    stage \in {"peaks", "prints"} =>
        /\ Range(peaks) =
              {cr \in (DOMAIN data_2d[0]) \X (DOMAIN data_2d) :
                  IsLocalPeak(data_2d, amp_min, p_nn, cr[2], cr[1])}
        /\ \A i \in DOMAIN peaks : \A j \in DOMAIN peaks :
              i < j => ColumnMajorBefore(peaks[i], peaks[j])

\* Two neighboring cells of equal amplitude are both reported, and a cell at
\* the cutoff is not.
C9_Witness ==
    /\ stage = "peaks"
    /\ <<0, 0>> \in Range(peaks)
    /\ <<1, 0>> \in Range(peaks)
    /\ NumRows(data_2d) = 2
    /\ NumCols(data_2d) = 2
    /\ data_2d[0][0] = data_2d[0][1]
    /\ data_2d[1][0] = amp_min
    /\ <<0, 1>> \notin Range(peaks)

----------------------------------------------------------------------------
\* C10 as stated: every hash (f1, f2, dt) generated from the peaks of the peak
\* detector has a time difference dt strictly greater than 0.
C10_DtPositive ==
    stage = "prints" /\ data_2d # <<>> =>
        \A k \in DOMAIN fingerprints : fingerprints[k][1][3] > 0

\* C10 as amended: dt is never negative; it is 0 when the two peaks lie in the
\* same time column.
C10_DtNonNegative ==
    stage = "prints" /\ data_2d # <<>> =>
        \A k \in DOMAIN fingerprints : fingerprints[k][1][3] >= 0

\* One spectrogram yields a pair of peaks in one column and a pair in two.
C10_Witness ==
    /\ stage = "prints"
    /\ data_2d # <<>>
    /\ \E k \in DOMAIN fingerprints : fingerprints[k][1][3] = 0
    /\ \E k \in DOMAIN fingerprints : fingerprints[k][1][3] > 0

----------------------------------------------------------------------------
\* fingerprints.py: digital_to_spec, from the log-scaled spectrogram S on.
\* frac_cut is the fraction num / FracDen.

FracDen == 4

\* S.size
SizeOf(S) == NumRows(S) * NumCols(S)

\* S.ravel(): the values row by row.
Ravel(S) ==
    [k \in 1..SizeOf(S) |-> S[(k - 1) \div NumCols(S)][(k - 1) % NumCols(S)]]

\* assert 0.0 <= frac_cut <= 1.0
FracCutAccepted(num) == 0 <= num /\ num <= FracDen

\* int(frac_cut * S.size)
CutoffIndex(num, size) == (num * size) \div FracDen

\* np.partition(a, kth) takes 0 <= kth < a.size and raises ValueError beyond.
KthInBounds(kth, size) == 0 <= kth /\ kth < size

\* np.partition(a, kth)[kth]: the element with at most kth elements below it
\* and more than kth elements not above it.
PartitionAt(a, kth) ==
    CHOOSE v \in Range(a) :
        /\ Cardinality({i \in DOMAIN a : a[i] < v}) <= kth
        /\ kth < Cardinality({i \in DOMAIN a : a[i] <= v})

\* Lines 42 and 62-65: the outcome and the cutoff.
digital_to_spec(S, num) ==
    IF ~FracCutAccepted(num) THEN [outcome |-> "AssertionError", cutoff |-> 0]
    ELSE LET cutoff_index == CutoffIndex(num, SizeOf(S))
         IN  IF ~KthInBounds(cutoff_index, SizeOf(S))
             THEN [outcome |-> "ValueError", cutoff |-> 0]
             ELSE [outcome |-> "ok", cutoff |-> PartitionAt(Ravel(S), cutoff_index)]

InitCut ==
    /\ data_2d \in Grids
    /\ amp_min = 0
    /\ p_nn = 0
    /\ fan_value = FINGERPRINT_FANOUT
    /\ peaks = <<>>
    /\ fingerprints = <<>>
    /\ stage = "log"
    /\ fp_lookup = <<>>
    /\ song_id_to_name = <<>>
    /\ assigned = <<>>
    /\ database = <<>>
    /\ writer = <<>>
    /\ key_order = <<>>
    /\ last = [op |-> "none", frac_num |-> 0, outcome |-> "none"]

DigitalToSpec ==
    /\ stage = "log"
    /\ \E num \in (-1)..(FracDen + 1) :
          LET out == digital_to_spec(data_2d, num)
          IN  /\ amp_min' = out.cutoff
              /\ last' = [op |-> "digital_to_spec", frac_num |-> num,
                          outcome |-> out.outcome]
              /\ stage' = IF out.outcome = "ok" THEN "spec" ELSE "raised"
    /\ UNCHANGED <<data_2d, p_nn, peaks, fan_value, fingerprints>>
    /\ UNCHANGED <<fp_lookup, song_id_to_name, assigned, database, writer, key_order>>

NextCut == DigitalToSpec

SpecCut == InitCut /\ [][NextCut]_vars

----------------------------------------------------------------------------
\* C11: for every frac_cut in [0, 1], both ends included, and every non-empty
\* spectrogram of N values the preprocessor succeeds and the cutoff is the
\* value at index floor(frac_cut * N) of the values sorted ascending; it fails
\* only when frac_cut is outside [0, 1].

\* s is a in ascending order.
IsSortedCopy(s, a) ==
    /\ Len(s) = Len(a)
    /\ \A i \in DOMAIN s : \A j \in DOMAIN s : i < j => s[i] <= s[j]
    /\ \A v \in Range(a) \cup Range(s) :
          Cardinality({i \in DOMAIN s : s[i] = v}) = Cardinality({i \in DOMAIN a : a[i] = v})

\* The value at index k, from 0, of a sorted ascending.
SortedAt(a, k) ==
    LET s == CHOOSE t \in [DOMAIN a -> Range(a)] : IsSortedCopy(t, a)
    IN  s[k + 1]

C11_CutoffOnClosedInterval ==
    last.op = "digital_to_spec" =>
        IF 0 <= last.frac_num /\ last.frac_num <= FracDen
        THEN /\ last.outcome = "ok"
             /\ (last.frac_num * SizeOf(data_2d)) \div FracDen < SizeOf(data_2d)
             /\ amp_min = SortedAt(Ravel(data_2d),
                                   (last.frac_num * SizeOf(data_2d)) \div FracDen)
        ELSE last.outcome # "ok"

\* The same with frac_cut = 1 left out (under SpecCut): below 1 the cutoff is
\* the sorted value at floor(frac_cut * N); at 1 np.partition raises.
CutoffBelowOne ==
    last.op = "digital_to_spec" =>
        /\ (0 <= last.frac_num /\ last.frac_num < FracDen
               => /\ last.outcome = "ok"
                  /\ amp_min = SortedAt(Ravel(data_2d),
                                        (last.frac_num * SizeOf(data_2d)) \div FracDen))
        /\ (last.frac_num = FracDen => last.outcome = "ValueError")
        /\ (last.frac_num < 0 \/ last.frac_num > FracDen
               => last.outcome = "AssertionError")

====
